---------------------------- MODULE Spec2Model ----------------------------
(***************************************************************************)
(* State-machine model of the shift-request workflow of work_time_back:    *)
(* the request handlers of app/routers/requests.py, the weekly schedule    *)
(* reconciliation of app/services/schedule_calc.py and the audit sink of   *)
(* app/core/audit.py.                                                      *)
(*                                                                         *)
(* Conventions                                                             *)
(*   - a date is a day number, day 0 being a Monday, so that               *)
(*     date.weekday() is d % 7 and timedelta(days=n) is +n;                *)
(*   - a datetime.time is the number of minutes since midnight;            *)
(*   - Python's None is NoneT for optional hours/times/dates and NoneId    *)
(*     for optional ids and strings;                                       *)
(*   - a table is the sequence of its rows in insertion order; a row's     *)
(*     primary key is its index.  Columns that no handler reads back       *)
(*     (reason, decided_at, operator_id, created_at, names, location)      *)
(*     are left out.                                                       *)
(***************************************************************************)
EXTENDS Integers, Sequences, FiniteSets, TLC

VARIABLES
    requests,     \* table shift_requests (committed rows)
    audit,        \* table audit_logs (committed rows, as (action_type, request_id) pairs)
    assignments,  \* table user_shifts (committed rows)
    sess          \* per worker: the call in flight (its session, then its response)

vars == <<requests, audit, assignments, sess>>

NoneT == 0 - 1
NoneId == "None"

\* ------------------------------------------------------------------ bounds
MaxRequests == 2
MaxCuts == 3
MaxExtras == 3
MaxAssignments == 2
MaxBatch == 3
MaxRace == 2
MaxDecide == 2
MaxConcur == 1
MaxView == 2

\* ------------------------------------------------------------ fixed tables
\* users: two members, one operator, one master
UserIds == {"m1", "m2", "op", "ma"}

Role(u) ==
    CASE u = "op" -> "OPERATOR"
      [] u = "ma" -> "MASTER"
      [] OTHER -> "MEMBER"

RoleOrder(r) ==
    CASE r = "MEMBER" -> 1
      [] r = "OPERATOR" -> 2
      [] r = "MASTER" -> 3

\* shifts: sA is Monday 09:00-12:00, sB is Tuesday 09:00-12:00,
\* sC is Monday 13:00-15:00
ShiftIds == {"sA", "sB", "sC"}

Shift(sid) ==
    CASE sid = "sA" -> [id |-> "sA", weekday |-> 0, start_time |-> 540, end_time |-> 720]
      [] sid = "sB" -> [id |-> "sB", weekday |-> 1, start_time |-> 540, end_time |-> 720]
      [] sid = "sC" -> [id |-> "sC", weekday |-> 0, start_time |-> 780, end_time |-> 900]

\* --------------------------------------------------------- sequence helpers
RECURSIVE Concat(_)
Concat(ss) ==
    IF ss = <<>> THEN <<>> ELSE Head(ss) \o Concat(Tail(ss))

\* -------------------------------------------------- services/schedule_calc
Weekday(d) == d % 7

\* _valid_for_date when the last day of validity is left out
_valid_for_dateExclusive(a, target) ==
    IF a.valid_from > target THEN FALSE
    ELSE IF a.valid_to # NoneT /\ a.valid_to <= target THEN FALSE
    ELSE TRUE

_valid_for_date(a, target) ==
    IF a.valid_from > target THEN FALSE
    ELSE IF a.valid_to # NoneT /\ a.valid_to < target THEN FALSE
    ELSE TRUE

\* the BASE event of assignment a on current_date
BaseEvent(a, current_date) ==
    [user_id |-> a.user_id, date |-> current_date,
     start_time |-> Shift(a.shift_id).start_time,
     end_time |-> Shift(a.shift_id).end_time,
     shift_id |-> a.shift_id,
     valid_from |-> a.valid_from, valid_to |-> a.valid_to,
     source |-> "BASE"]

\* the inner loop over the assignments for one date of the week
BaseEventsOn(asg, current_date) ==
    LET keep(a) == _valid_for_date(a, current_date)
                   /\ Shift(a.shift_id).weekday = Weekday(current_date)
        kept == SelectSeq(asg, keep)
    IN [i \in 1..Len(kept) |-> BaseEvent(kept[i], current_date)]

\* the piece of seg before the cut and the piece after it
SegBefore(seg, abs_start) ==
    [user_id |-> seg.user_id, date |-> seg.date,
     start_time |-> seg.start_time, end_time |-> abs_start,
     shift_id |-> seg.shift_id, valid_from |-> NoneT, valid_to |-> NoneT,
     source |-> seg.source]

SegAfter(seg, abs_end) ==
    [user_id |-> seg.user_id, date |-> seg.date,
     start_time |-> abs_end, end_time |-> seg.end_time,
     shift_id |-> seg.shift_id, valid_from |-> NoneT, valid_to |-> NoneT,
     source |-> seg.source]

\* CutSegment when the piece after the cut is only kept if nothing precedes it
CutSegmentOnePiece(seg, abs_start, abs_end) ==
    IF abs_end <= seg.start_time \/ abs_start >= seg.end_time
    THEN <<seg>>
    ELSE IF abs_start > seg.start_time THEN <<SegBefore(seg, abs_start)>>
    ELSE IF abs_end < seg.end_time THEN <<SegAfter(seg, abs_end)>>
    ELSE <<>>

\* CutSegment when the piece after the cut is appended before the piece
\* that precedes it
CutSegmentAfterFirst(seg, abs_start, abs_end) ==
    IF abs_end <= seg.start_time \/ abs_start >= seg.end_time
    THEN <<seg>>
    ELSE (IF abs_end < seg.end_time THEN <<SegAfter(seg, abs_end)>> ELSE <<>>)
         \o (IF abs_start > seg.start_time THEN <<SegBefore(seg, abs_start)>> ELSE <<>>)

\* CutSegment when a piece is kept even if the cut starts or ends on the
\* bound of the segment
CutSegmentKeepEmpty(seg, abs_start, abs_end) ==
    IF abs_end <= seg.start_time \/ abs_start >= seg.end_time
    THEN <<seg>>
    ELSE (IF abs_start >= seg.start_time THEN <<SegBefore(seg, abs_start)>> ELSE <<>>)
         \o (IF abs_end <= seg.end_time THEN <<SegAfter(seg, abs_end)>> ELSE <<>>)

\* one segment against one cut: what the body of the loop over segments appends
CutSegment(seg, abs_start, abs_end) ==
    IF abs_end <= seg.start_time \/ abs_start >= seg.end_time
    THEN <<seg>>
    ELSE (IF abs_start > seg.start_time THEN <<SegBefore(seg, abs_start)>> ELSE <<>>)
         \o (IF abs_end < seg.end_time THEN <<SegAfter(seg, abs_end)>> ELSE <<>>)

\* ApplyCuts when a request without a window is passed over
RECURSIVE ApplyCutsSkipNull(_, _, _)
ApplyCutsSkipNull(ev, segments, abs_list) ==
    IF abs_list = <<>> THEN segments
    ELSE LET abs_req == Head(abs_list)
             new_segments ==
                 IF abs_req.target_start_time = NoneT \/ abs_req.target_end_time = NoneT
                 THEN segments
                 ELSE Concat([i \in 1..Len(segments) |->
                                 CutSegment(segments[i], abs_req.target_start_time,
                                            abs_req.target_end_time)])
         IN ApplyCutsSkipNull(ev, new_segments, Tail(abs_list))

\* the loop over abs_list for one BASE event ev
RECURSIVE ApplyCuts(_, _, _)
ApplyCuts(ev, segments, abs_list) ==
    IF abs_list = <<>> THEN segments
    ELSE LET abs_req == Head(abs_list)
             abs_start == IF abs_req.target_start_time # NoneT
                          THEN abs_req.target_start_time ELSE ev.start_time
             abs_end == IF abs_req.target_end_time # NoneT
                        THEN abs_req.target_end_time ELSE ev.end_time
             new_segments ==
                 Concat([i \in 1..Len(segments) |->
                            CutSegment(segments[i], abs_start, abs_end)])
         IN ApplyCuts(ev, new_segments, Tail(abs_list))

\* ApprovedInWeek when the query forgets the status filter
ApprovedInWeekAnyStatus(reqs, start, user_filter) ==
    LET end == start + 6
        keep(r) == /\ r.target_date >= start
                   /\ r.target_date <= end
                   /\ (user_filter # NoneId => r.user_id = user_filter)
    IN SelectSeq(reqs, keep)

\* the query of lines 25-32: APPROVED requests of the week (of the user)
ApprovedInWeek(reqs, start, user_filter) ==
    LET end == start + 6
        keep(r) == /\ r.status = "APPROVED"
                   /\ r.target_date >= start
                   /\ r.target_date <= end
                   /\ (user_filter # NoneId => r.user_id = user_filter)
    IN SelectSeq(reqs, keep)

\* AbsList when the key leaves the user out
AbsListAnyUser(rs, ev) ==
    LET keep(r) == /\ r.type = "ABSENCE"
                   /\ r.target_date = ev.date
                   /\ r.target_shift_id = ev.shift_id
    IN SelectSeq(rs, keep)

\* absences_by_key.get(key, [])
AbsList(rs, ev) ==
    LET keep(r) == /\ r.type = "ABSENCE"
                   /\ r.user_id = ev.user_id
                   /\ r.target_date = ev.date
                   /\ r.target_shift_id = ev.shift_id
    IN SelectSeq(rs, keep)

\* ExtraEvent when the request's own window is not read
ExtraEventFullWindow(req) ==
    LET shift == Shift(req.target_shift_id)
    IN [user_id |-> req.user_id, date |-> req.target_date,
        start_time |-> shift.start_time, end_time |-> shift.end_time,
        shift_id |-> shift.id, valid_from |-> NoneT, valid_to |-> NoneT,
        source |-> "EXTRA"]

ExtraEvent(req) ==
    LET shift == Shift(req.target_shift_id)
    IN [user_id |-> req.user_id, date |-> req.target_date,
        start_time |-> IF req.target_start_time # NoneT
                       THEN req.target_start_time ELSE shift.start_time,
        end_time |-> IF req.target_end_time # NoneT
                     THEN req.target_end_time ELSE shift.end_time,
        shift_id |-> shift.id, valid_from |-> NoneT, valid_to |-> NoneT,
        source |-> "EXTRA"]

\* ExtraEvents when the absences of its key are cut out of an EXTRA event as
\* they are out of a BASE event
ExtraEventsCut(rs) ==
    LET isExtra(r) == /\ r.type = "EXTRA"
                      /\ r.target_shift_id \in ShiftIds
                      /\ r.user_id \in UserIds
        ex == SelectSeq(rs, isExtra)
    IN Concat([i \in 1..Len(ex) |->
                  ApplyCuts(ExtraEvent(ex[i]), <<ExtraEvent(ex[i])>>,
                            AbsList(rs, ExtraEvent(ex[i])))])

\* the loop over the EXTRA requests: one event each, requests whose shift or
\* user is unknown passed over
ExtraEvents(rs) ==
    LET isExtra(r) == /\ r.type = "EXTRA"
                      /\ r.target_shift_id \in ShiftIds
                      /\ r.user_id \in UserIds
        ex == SelectSeq(rs, isExtra)
    IN [i \in 1..Len(ex) |-> ExtraEvent(ex[i])]

week_events(reqs, asg, start, user_filter) ==
    LET mine(a) == user_filter # NoneId => a.user_id = user_filter
        asgs == SelectSeq(asg, mine)
        rs == ApprovedInWeek(reqs, start, user_filter)
        base_events == Concat([o \in 1..7 |-> BaseEventsOn(asgs, start + (o - 1))])
        filtered_events ==
            Concat([i \in 1..Len(base_events) |->
                       ApplyCuts(base_events[i], <<base_events[i]>>,
                                 AbsList(rs, base_events[i]))])
    IN filtered_events \o ExtraEvents(rs)

\* ------------------------------------------------------- routers/requests
\* datetime.strptime(f"{h:02d}:00", "%H:%M").time()
HourToTime(h) == h * 60

\* the hours strptime("%H:%M") parses; on any other it raises ValueError
ParsedHours == 0..23

\* (start_time, end_time) of a range; <<400>> when it raises HTTPException,
\* <<500>> when strptime raises ValueError, which no handler catches
_time_window_from_range(start_hour, end_hour) ==
    IF start_hour = NoneT \/ end_hour = NoneT THEN <<NoneT, NoneT>>
    ELSE IF start_hour >= end_hour THEN <<400>>
    ELSE IF start_hour \notin ParsedHours \/ end_hour \notin ParsedHours THEN <<500>>
    ELSE <<HourToTime(start_hour), HourToTime(end_hour)>>

_overlaps(a_start, a_end, b_start, b_end) ==
    IF a_start = NoneT \/ a_end = NoneT \/ b_start = NoneT \/ b_end = NoneT
    THEN TRUE
    ELSE a_start < b_end /\ b_start < a_end

_week_start(d) == d - Weekday(d)

\* lines 66-69: the ranges a payload asks for
PayloadRanges(p) ==
    LET shift_ids == IF p.target_shift_ids # <<>> THEN p.target_shift_ids
                     ELSE IF p.target_shift_id # NoneId THEN <<p.target_shift_id>>
                     ELSE <<>>
    IN IF p.target_ranges # <<>> THEN p.target_ranges
       ELSE [i \in 1..Len(shift_ids) |->
                [shift_id |-> shift_ids[i], start_hour |-> NoneT, end_hour |-> NoneT]]

TargetUser(current, p) == IF p.user_id # NoneId THEN p.user_id ELSE current

\* effective_slots: the (shift, date) keys of the user's reconciled week
EffectiveSlots(reqs, asg, target_user_id, target_date) ==
    LET events == week_events(reqs, asg, _week_start(target_date), target_user_id)
    IN {<<events[i].shift_id, events[i].date>> : i \in 1..Len(events)}

\* DupRows when the query takes every request that is not CANCELLED
DupRowsNotCancelled(reqs, target_user_id, target_date, sid) ==
    LET keep(q) == /\ q.user_id = target_user_id
                   /\ q.target_date = target_date
                   /\ q.target_shift_id = sid
                   /\ q.status # "CANCELLED"
    IN SelectSeq(reqs, keep)

\* rows the dup_query of lines 91-96 returns
DupRows(reqs, target_user_id, target_date, sid) ==
    LET keep(q) == /\ q.user_id = target_user_id
                   /\ q.target_date = target_date
                   /\ q.target_shift_id = sid
                   /\ q.status = "PENDING"
    IN SelectSeq(reqs, keep)

\* what a check raises: <<status code, detail>> of its HTTPException, or Ok
Ok == <<0, "">>

\* _assert_same_weekday when it never raises
_assert_same_weekdayNever(target_date, shift) == Ok

\* _assert_same_weekday: 400 when the date is not on the shift's weekday
_assert_same_weekday(target_date, shift) ==
    IF shift.weekday # Weekday(target_date) THEN <<400, "weekday mismatch">> ELSE Ok

\* lines 87-89: an ABSENCE window must lie within the shift
WindowError(type, start_time, end_time, shift) ==
    IF /\ type = "ABSENCE" /\ start_time # NoneT /\ end_time # NoneT
       /\ (start_time < shift.start_time \/ end_time > shift.end_time)
    THEN <<400, "window outside shift">> ELSE Ok

\* lines 97-99: a PENDING request of the same key overlaps the window
DupError(dups, start_time, end_time) ==
    IF \E i \in 1..Len(dups) :
          _overlaps(start_time, end_time,
                    dups[i].target_start_time, dups[i].target_end_time)
    THEN <<409, "pending overlap">> ELSE Ok

\* AdmissionError without the ABSENCE test, and without the EXTRA test
AdmissionErrorNoAbsence(type, has_slot) ==
    IF type = "EXTRA" /\ has_slot THEN <<400, "extra slot taken">> ELSE Ok

AdmissionErrorNoExtra(type, has_slot) ==
    IF type = "ABSENCE" /\ ~has_slot THEN <<400, "absence needs slot">> ELSE Ok

\* lines 103-106: ABSENCE needs the slot, EXTRA needs it free
AdmissionError(type, has_slot) ==
    IF type = "ABSENCE" /\ ~has_slot THEN <<400, "absence needs slot">>
    ELSE IF type = "EXTRA" /\ has_slot THEN <<400, "extra slot taken">>
    ELSE Ok

\* the body of the loop over ranges for one range r: Ok when the range
\* passes, the HTTPException it raises otherwise
RangeError(reqs, slots, target_user_id, p, r) ==
    IF r.shift_id \notin ShiftIds THEN <<404, "shift not found">>
    ELSE LET win == _time_window_from_range(r.start_hour, r.end_hour)
             shift == Shift(r.shift_id)
             dups == DupRows(reqs, target_user_id, p.target_date, r.shift_id)
             has_slot == <<r.shift_id, p.target_date>> \in slots
             weekday_error == _assert_same_weekday(p.target_date, shift)
             window_error == WindowError(p.type, win[1], win[2], shift)
             dup_error == DupError(dups, win[1], win[2])
         IN IF weekday_error # Ok THEN weekday_error
            ELSE IF win = <<400>> THEN <<400, "start not before end">>
            ELSE IF win = <<500>> THEN <<500, "hour not parsed">>
            ELSE IF window_error # Ok THEN window_error
            ELSE IF dup_error # Ok THEN dup_error
            ELSE AdmissionError(p.type, has_slot)

\* models.ShiftRequest(...) of lines 108-116 with the column defaults
NewRequest(target_user_id, p, r) ==
    LET win == _time_window_from_range(r.start_hour, r.end_hour)
    IN [user_id |-> target_user_id, type |-> p.type,
        target_date |-> p.target_date, target_shift_id |-> r.shift_id,
        target_start_time |-> win[1], target_end_time |-> win[2],
        status |-> "PENDING", cancelled_after_approval |-> FALSE,
        cancel_reason |-> NoneId]

\* SubmitError when the role of the target user is not looked at
SubmitErrorAnyTarget(reqs, asg, current, p) ==
    LET target_user_id == TargetUser(current, p)
        ranges == PayloadRanges(p)
        slots == EffectiveSlots(reqs, asg, target_user_id, p.target_date)
        errs == [i \in 1..Len(ranges) |->
                    RangeError(reqs, slots, target_user_id, p, ranges[i])]
        bad == {i \in 1..Len(ranges) : errs[i] # Ok}
    IN IF target_user_id \notin UserIds THEN <<404, "target user not found">>
       ELSE IF Role(current) = "MEMBER" /\ target_user_id # current
            THEN <<403, "member for another">>
       ELSE IF ranges = <<>> THEN <<400, "no ranges">>
       ELSE IF bad # {} THEN errs[CHOOSE i \in bad : \A j \in bad : i <= j]
       ELSE Ok

\* what submit_request raises: the first HTTPException, Ok when it returns
SubmitError(reqs, asg, current, p) ==
    LET target_user_id == TargetUser(current, p)
        ranges == PayloadRanges(p)
        slots == EffectiveSlots(reqs, asg, target_user_id, p.target_date)
        errs == [i \in 1..Len(ranges) |->
                    RangeError(reqs, slots, target_user_id, p, ranges[i])]
        bad == {i \in 1..Len(ranges) : errs[i] # Ok}
    IN IF target_user_id \notin UserIds THEN <<404, "target user not found">>
       ELSE IF Role(target_user_id) # "MEMBER" THEN <<400, "target is not a member">>
       ELSE IF Role(current) = "OPERATOR" /\ Role(target_user_id) = "MASTER"
            THEN <<403, "operator for master">>
       ELSE IF Role(current) = "MEMBER" /\ target_user_id # current
            THEN <<403, "member for another">>
       ELSE IF ranges = <<>> THEN <<400, "no ranges">>
       ELSE IF bad # {} THEN errs[CHOOSE i \in bad : \A j \in bad : i <= j]
       ELSE Ok

\* created_requests of a call that raises nothing
SubmitRows(current, p) ==
    LET ranges == PayloadRanges(p)
    IN [i \in 1..Len(ranges) |-> NewRequest(TargetUser(current, p), p, ranges[i])]

\* status code of cancel_request
CancelCode(reqs, current, rid) ==
    IF rid \notin 1..Len(reqs) THEN 404
    ELSE IF Role(current) = "MEMBER" /\ reqs[rid].user_id # current THEN 403
    ELSE IF reqs[rid].status \notin {"PENDING", "APPROVED"} THEN 400
    ELSE 200

\* CancelRow with the test of was_approved forgotten
CancelRowAlwaysFlag(req) ==
    [req EXCEPT !.status = "CANCELLED",
                !.cancel_reason = "USER_CANCEL",
                !.cancelled_after_approval = TRUE]

\* lines 226-230: the columns cancel_request writes
CancelRow(req) ==
    LET was_approved == req.status = "APPROVED"
    IN [req EXCEPT !.status = "CANCELLED",
                   !.cancel_reason = "USER_CANCEL",
                   !.cancelled_after_approval = IF was_approved THEN TRUE ELSE @]

\* ApproveCode when a CANCELLED request is not refused
ApproveCodeCancelledToo(reqs, current, rid) ==
    IF RoleOrder(Role(current)) < RoleOrder("OPERATOR") THEN 403
    ELSE IF rid \notin 1..Len(reqs) THEN 404
    ELSE IF reqs[rid].status = "APPROVED" THEN 400
    ELSE 200

\* ApproveCode when a PENDING request is put through the admission guard of
\* submit_request again, on the tables as they are at the decision
ApproveCodeRevalidated(reqs, current, rid) ==
    IF RoleOrder(Role(current)) < RoleOrder("OPERATOR") THEN 403
    ELSE IF rid \notin 1..Len(reqs) THEN 404
    ELSE IF reqs[rid].status = "CANCELLED" THEN 400
    ELSE IF reqs[rid].status = "APPROVED" THEN 400
    ELSE IF AdmissionError(reqs[rid].type,
                           <<reqs[rid].target_shift_id, reqs[rid].target_date>> \in
                              EffectiveSlots(reqs, assignments, reqs[rid].user_id,
                                             reqs[rid].target_date)) # Ok
         THEN 400
    ELSE 200

\* status code of approve_request (require_role(OPERATOR) included)
ApproveCode(reqs, current, rid) ==
    IF RoleOrder(Role(current)) < RoleOrder("OPERATOR") THEN 403
    ELSE IF rid \notin 1..Len(reqs) THEN 404
    ELSE IF reqs[rid].status = "CANCELLED" THEN 400
    ELSE IF reqs[rid].status = "APPROVED" THEN 400
    ELSE 200

ApproveRow(req) == [req EXCEPT !.status = "APPROVED"]

\* status code of reject_request (require_role(OPERATOR) included)
RejectCode(reqs, current, rid) ==
    IF RoleOrder(Role(current)) < RoleOrder("OPERATOR") THEN 403
    ELSE IF rid \notin 1..Len(reqs) THEN 404
    ELSE IF reqs[rid].status \in {"CANCELLED", "REJECTED"} THEN 400
    ELSE 200

RejectRow(req) == [req EXCEPT !.status = "REJECTED", !.cancel_reason = "REJECTED"]

\* ---------------------------------------------------------------- inputs
Workers == {"w1", "w2"}

Rg(sid, sh, eh) == [shift_id |-> sid, start_hour |-> sh, end_hour |-> eh]

\* a RequestCreate body naming one shift by target_shift_id
PayloadShift(type, d, uid, sid) ==
    [type |-> type, target_date |-> d, user_id |-> uid,
     target_shift_id |-> sid, target_shift_ids |-> <<>>, target_ranges |-> <<>>]

\* a RequestCreate body with target_ranges
PayloadRangesOf(type, d, uid, rs) ==
    [type |-> type, target_date |-> d, user_id |-> uid,
     target_shift_id |-> NoneId, target_shift_ids |-> <<>>, target_ranges |-> rs]

Types == {"ABSENCE", "EXTRA"}

\* the submit_request calls explored: (current user, body)
SubmitCalls ==
    \* a member for themself, well-formed bodies
    {[current |-> "m1", payload |-> PayloadShift(t, 0, NoneId, "sA")] :
        t \in Types}
    \cup {[current |-> "m1",
           payload |-> [PayloadShift(t, 1, NoneId, NoneId)
                           EXCEPT !.target_shift_ids = <<"sB">>]] : t \in Types}
    \cup {[current |-> "m1",
           payload |-> PayloadRangesOf("ABSENCE", 0, NoneId, <<Rg("sA", 10, 11)>>)]}
    \* several ranges in one body
    \cup {[current |-> "m1", payload |-> PayloadRangesOf("ABSENCE", 0, NoneId, rs)] :
             rs \in {<<Rg("sA", NoneT, NoneT), Rg("sA", NoneT, NoneT)>>,
                     <<Rg("sA", 10, 11), Rg("sX", NoneT, NoneT)>>}}
    \* malformed bodies
    \cup {[current |-> "m1", payload |-> PayloadRangesOf("ABSENCE", 0, NoneId, rs)] :
             rs \in {<<Rg("sA", 11, 10)>>, <<Rg("sA", 8, 10)>>,
                                <<Rg("sB", NoneT, NoneT)>>, <<>>}}
    \* on behalf of somebody else
    \cup {[current |-> c, payload |-> PayloadShift("ABSENCE", 0, u, "sA")] :
             c \in {"op", "m2"}, u \in {"m1", "ma"}}
    \cup {[current |-> "op", payload |-> PayloadShift("EXTRA", 0, NoneId, "sA")]}

\* request ids a caller may name: the rows of the table and one unknown id
RequestIds == 1..(Len(requests) + 1)

\* assignment ids a caller may name: the rows of the table and one unknown id
AssignmentIds == 1..(Len(assignments) + 1)

\* ---------------------------------------------------------------- actions
Idle == [pc |-> "idle"]

\* the call has returned: the handler, for submit_request the caller and the
\* body it was given, the HTTP status code, the detail of the HTTPException
\* where one status code is raised by several checks, and for weekly_view the
\* events returned
Done(op, args, code, detail, body) ==
    [pc |-> "done", op |-> op, args |-> args, code |-> code, detail |-> detail,
     body |-> body]

Logging(op, args, action, ids, code) ==
    [pc |-> "log", op |-> op, args |-> args, action |-> action, ids |-> ids,
     code |-> code]

\* submit_request when the rows added before the range that raises stay in
\* the table
submit_requestPartial(w, current, p) ==
    /\ sess[w] = Idle
    /\ LET error == SubmitError(requests, assignments, current, p)
           rows == SubmitRows(current, p)
           ranges == PayloadRanges(p)
           target_user_id == TargetUser(current, p)
           slots == EffectiveSlots(requests, assignments, target_user_id, p.target_date)
           passed == {i \in 1..Len(ranges) :
                         \A j \in 1..i :
                            RangeError(requests, slots, target_user_id, p, ranges[j]) = Ok}
       IN IF error # Ok
          THEN /\ sess' = [sess EXCEPT ![w] =
                              Done("submit_request", <<current, p>>, error[1], error[2], <<>>)]
               /\ requests' = requests \o
                                 [i \in 1..Cardinality(passed) |->
                                     NewRequest(target_user_id, p, ranges[i])]
               /\ UNCHANGED <<audit, assignments>>
          ELSE /\ requests' = requests \o rows
               /\ sess' = [sess EXCEPT ![w] =
                              Logging("submit_request", <<current, p>>, "REQUEST_SUBMIT",
                                      (Len(requests) + 1)..(Len(requests) + Len(rows)),
                                      201)]
               /\ UNCHANGED <<audit, assignments>>

\* submit_request up to and including its first db.commit() (line 119);
\* an HTTPException ends the call with nothing written
submit_request(w, current, p) ==
    /\ sess[w] = Idle
    /\ LET error == SubmitError(requests, assignments, current, p)
           rows == SubmitRows(current, p)
       IN IF error # Ok
          THEN /\ sess' = [sess EXCEPT ![w] =
                              Done("submit_request", <<current, p>>, error[1], error[2], <<>>)]
               /\ UNCHANGED <<requests, audit, assignments>>
          ELSE /\ requests' = requests \o rows
               /\ sess' = [sess EXCEPT ![w] =
                              Logging("submit_request", <<current, p>>, "REQUEST_SUBMIT",
                                      (Len(requests) + 1)..(Len(requests) + Len(rows)),
                                      201)]
               /\ UNCHANGED <<audit, assignments>>

\* a handler that has added its rows to the session and not committed yet
Adding(op, args, rows) == [pc |-> "add", op |-> op, args |-> args, rows |-> rows]

\* submit_request from its first query to the end of the loop over ranges
\* (lines 55-118): every query reads the committed tables, the rows are added
\* to the session of the call
submit_check(w, current, p) ==
    /\ sess[w] = Idle
    /\ LET error == SubmitError(requests, assignments, current, p)
       IN sess' = [sess EXCEPT ![w] =
                     IF error # Ok
                     THEN Done("submit_request", <<current, p>>, error[1], error[2], <<>>)
                     ELSE Adding("submit_request", <<current, p>>, SubmitRows(current, p))]
    /\ UNCHANGED <<requests, audit, assignments>>

\* submit_commit when the commit runs the checks of the loop again on the
\* tables as they are by then
submit_commitRechecked(w) ==
    /\ sess[w].pc = "add"
    /\ LET error == SubmitError(requests, assignments, sess[w].args[1], sess[w].args[2])
       IN IF error # Ok
          THEN /\ sess' = [sess EXCEPT ![w] =
                              Done(sess[w].op, sess[w].args, error[1], error[2], <<>>)]
               /\ UNCHANGED <<requests, audit, assignments>>
          ELSE /\ requests' = requests \o sess[w].rows
               /\ sess' = [sess EXCEPT ![w] =
                              Logging(sess[w].op, sess[w].args, "REQUEST_SUBMIT",
                                      (Len(requests) + 1)..(Len(requests) + Len(sess[w].rows)),
                                      201)]
               /\ UNCHANGED <<audit, assignments>>

\* the first db.commit() of submit_request (line 119): the rows of the session
\* are inserted, no constraint of the table refusing them
submit_commit(w) ==
    /\ sess[w].pc = "add"
    /\ requests' = requests \o sess[w].rows
    /\ sess' = [sess EXCEPT ![w] =
                   Logging(sess[w].op, sess[w].args, "REQUEST_SUBMIT",
                           (Len(requests) + 1)..(Len(requests) + Len(sess[w].rows)),
                           201)]
    /\ UNCHANGED <<audit, assignments>>

\* cancel_request up to and including its first db.commit() (line 233)
cancel_request(w, current, rid) ==
    /\ sess[w] = Idle
    /\ LET code == CancelCode(requests, current, rid)
       IN IF code # 200
          THEN /\ sess' = [sess EXCEPT ![w] = Done("cancel_request", <<>>, code, "", <<>>)]
               /\ UNCHANGED <<requests, audit, assignments>>
          ELSE /\ requests' = [requests EXCEPT ![rid] = CancelRow(@)]
               /\ sess' = [sess EXCEPT ![w] = Logging("cancel_request", <<>>, "REQUEST_CANCEL", {rid}, 200)]
               /\ UNCHANGED <<audit, assignments>>

\* approve_request up to and including its first db.commit() (line 259)
approve_request(w, current, rid) ==
    /\ sess[w] = Idle
    /\ LET code == ApproveCode(requests, current, rid)
       IN IF code # 200
          THEN /\ sess' = [sess EXCEPT ![w] = Done("approve_request", <<>>, code, "", <<>>)]
               /\ UNCHANGED <<requests, audit, assignments>>
          ELSE /\ requests' = [requests EXCEPT ![rid] = ApproveRow(@)]
               /\ sess' = [sess EXCEPT ![w] = Logging("approve_request", <<>>, "REQUEST_APPROVE", {rid}, 200)]
               /\ UNCHANGED <<audit, assignments>>

\* reject_request up to and including its first db.commit() (line 284)
reject_request(w, current, rid) ==
    /\ sess[w] = Idle
    /\ LET code == RejectCode(requests, current, rid)
       IN IF code # 200
          THEN /\ sess' = [sess EXCEPT ![w] = Done("reject_request", <<>>, code, "", <<>>)]
               /\ UNCHANGED <<requests, audit, assignments>>
          ELSE /\ requests' = [requests EXCEPT ![rid] = RejectRow(@)]
               /\ sess' = [sess EXCEPT ![w] = Logging("reject_request", <<>>, "REQUEST_REJECT", {rid}, 200)]
               /\ UNCHANGED <<audit, assignments>>

\* record_log: the AuditLog rows a handler adds after its first commit
record_log(action, ids) == {<<action, id>> : id \in ids}

\* the rest of a handler: record_log for each request, the second db.commit()
\* and the response
LogCommit(w) ==
    /\ sess[w].pc = "log"
    /\ audit' = audit \cup record_log(sess[w].action, sess[w].ids)
    /\ sess' = [sess EXCEPT ![w] = Done(sess[w].op, sess[w].args, sess[w].code, "", <<>>)]
    /\ UNCHANGED <<requests, assignments>>

\* the response leaves and the worker takes the next call
Respond(w) ==
    /\ sess[w].pc = "done"
    /\ sess' = [sess EXCEPT ![w] = Idle]
    /\ UNCHANGED <<requests, audit, assignments>>

\* the UPDATE the flush of db.commit() emits for a loaded row: it sets the
\* columns the handler has changed and no other
Merge(req, writes) ==
    [c \in DOMAIN req |-> IF c \in DOMAIN writes THEN writes[c] ELSE req[c]]

\* the columns approve_request changes on the row it has loaded
ApproveWrites(req) == [status |-> "APPROVED"]

\* the columns cancel_request changes on the row it has loaded
CancelWrites(req) ==
    IF req.status = "APPROVED"
    THEN [status |-> "CANCELLED", cancel_reason |-> "USER_CANCEL",
          cancelled_after_approval |-> TRUE]
    ELSE [status |-> "CANCELLED", cancel_reason |-> "USER_CANCEL"]

\* a handler that has changed the row it loaded and not committed yet
Dirty(op, rid, writes, action) ==
    [pc |-> "dirty", op |-> op, rid |-> rid, writes |-> writes, action |-> action]

\* approve_request from its query to the assignments on the loaded row
\* (lines 248-258)
approve_read(w, current, rid) ==
    /\ sess[w] = Idle
    /\ LET code == ApproveCode(requests, current, rid)
       IN sess' = [sess EXCEPT ![w] =
                     IF code # 200
                     THEN Done("approve_request", <<>>, code, "", <<>>)
                     ELSE Dirty("approve_request", rid, ApproveWrites(requests[rid]),
                                "REQUEST_APPROVE")]
    /\ UNCHANGED <<requests, audit, assignments>>

\* cancel_request from its query to the assignments on the loaded row
\* (lines 218-232)
cancel_read(w, current, rid) ==
    /\ sess[w] = Idle
    /\ LET code == CancelCode(requests, current, rid)
       IN sess' = [sess EXCEPT ![w] =
                     IF code # 200
                     THEN Done("cancel_request", <<>>, code, "", <<>>)
                     ELSE Dirty("cancel_request", rid, CancelWrites(requests[rid]),
                                "REQUEST_CANCEL")]
    /\ UNCHANGED <<requests, audit, assignments>>

\* the first db.commit() of approve_request (line 259) and of cancel_request
\* (line 233): the changed columns are written to the row as it is stored
row_commit(w) ==
    /\ sess[w].pc = "dirty"
    /\ requests' = [requests EXCEPT ![sess[w].rid] = Merge(@, sess[w].writes)]
    /\ sess' = [sess EXCEPT ![w] =
                   Logging(sess[w].op, <<>>, sess[w].action, {sess[w].rid}, 200)]
    /\ UNCHANGED <<audit, assignments>>

\* ------------------------------------------------------- routers/schedule
\* weekly_view: 403 for a member naming somebody else, the week's events otherwise
WeeklyViewCode(current, user_id) ==
    IF Role(current) = "MEMBER" /\ user_id # NoneId /\ user_id # current
    THEN 403 ELSE 200

weekly_view(w, current, start, user_id) ==
    /\ sess[w] = Idle
    /\ LET code == WeeklyViewCode(current, user_id)
           body == IF code = 200
                   THEN week_events(requests, assignments, start, user_id)
                   ELSE <<>>
       IN sess' = [sess EXCEPT ![w] = Done("weekly_view", <<>>, code, "", body)]
    /\ UNCHANGED <<requests, audit, assignments>>

ALLOWED_START_HOUR == 9
ALLOWED_END_HOUR == 18

\* a SlotAssign body
SlotAssign(user_id, weekday, start_hour, end_hour, valid_from, valid_to) ==
    [user_id |-> user_id, weekday |-> weekday, start_hour |-> start_hour,
     end_hour |-> end_hour, valid_from |-> valid_from, valid_to |-> valid_to]

\* (start_hour, end_hour) as _validate_hours returns them; <<400>> when it raises
_validate_hours(start_hour, end_hour) ==
    LET end == IF end_hour = NoneT
               THEN (IF ALLOWED_END_HOUR < start_hour + 1
                     THEN ALLOWED_END_HOUR ELSE start_hour + 1)
               ELSE end_hour
    IN IF start_hour < ALLOWED_START_HOUR \/ end > ALLOWED_END_HOUR THEN <<400>>
       ELSE IF end <= start_hour THEN <<400>>
       ELSE <<start_hour, end>>

\* _ensure_slot: the shift of that weekday and those times; NoneId stands for
\* the shift it would insert when the table has none
_ensure_slot(weekday, start_time, end_time) ==
    LET existing == {sid \in ShiftIds : /\ Shift(sid).weekday = weekday
                                        /\ Shift(sid).start_time = start_time
                                        /\ Shift(sid).end_time = end_time}
    IN IF existing # {} THEN CHOOSE sid \in existing : TRUE ELSE NoneId

\* the shift an assign_slot body names
SlotOf(p) ==
    LET hours == _validate_hours(p.start_hour, p.end_hour)
    IN _ensure_slot(p.weekday, HourToTime(hours[1]), HourToTime(hours[2]))

\* what assign_slot raises (require_role(OPERATOR) included), Ok when it returns
AssignError(asg, current, p) ==
    LET hours == _validate_hours(p.start_hour, p.end_hour)
        existing == {i \in 1..Len(asg) : /\ asg[i].user_id = p.user_id
                                          /\ asg[i].shift_id = SlotOf(p)
                                          /\ asg[i].valid_from <= p.valid_from}
    IN IF RoleOrder(Role(current)) < RoleOrder("OPERATOR")
       THEN <<403, "insufficient permissions">>
       ELSE IF Len(hours) = 1 THEN <<400, "hours not allowed">>
       ELSE IF p.valid_to # NoneT /\ p.valid_to < p.valid_from
            THEN <<400, "valid_to before valid_from">>
       ELSE IF p.user_id \notin UserIds THEN <<404, "target user not found">>
       ELSE IF Role(p.user_id) # "MEMBER" THEN <<400, "target is not a member">>
       ELSE IF existing # {} THEN <<409, "slot already assigned">>
       ELSE Ok

\* the models.UserShift row assign_slot adds
NewAssignment(p) ==
    [user_id |-> p.user_id, shift_id |-> SlotOf(p),
     valid_from |-> p.valid_from, valid_to |-> p.valid_to]

\* assign_slot up to and including its first db.commit(), for a body naming
\* a shift of the table
assign_slot(w, current, p) ==
    /\ sess[w] = Idle
    /\ Len(_validate_hours(p.start_hour, p.end_hour)) = 2 => SlotOf(p) # NoneId
    /\ LET error == AssignError(assignments, current, p)
       IN IF error # Ok
          THEN /\ sess' = [sess EXCEPT ![w] =
                              Done("assign_slot", <<>>, error[1], error[2], <<>>)]
               /\ UNCHANGED <<requests, audit, assignments>>
          ELSE /\ assignments' = Append(assignments, NewAssignment(p))
               /\ sess' = [sess EXCEPT ![w] =
                              Logging("assign_slot", <<>>, "ASSIGN_SLOT", {NoneT}, 200)]
               /\ UNCHANGED <<requests, audit>>

\* status code of delete_assignment (require_role(OPERATOR) included)
DeleteCode(asg, current, aid) ==
    IF RoleOrder(Role(current)) < RoleOrder("OPERATOR") THEN 403
    ELSE IF aid \notin 1..Len(asg) THEN 404
    ELSE 200

\* delete_assignment; the row leaves the table, an assignment being named by
\* its place in it
delete_assignment(w, current, aid) ==
    /\ sess[w] = Idle
    /\ LET code == DeleteCode(assignments, current, aid)
       IN /\ sess' = [sess EXCEPT ![w] = Done("delete_assignment", <<>>, code, "", <<>>)]
          /\ assignments' = IF code = 200
                            THEN SubSeq(assignments, 1, aid - 1)
                                    \o SubSeq(assignments, aid + 1, Len(assignments))
                            ELSE assignments
    /\ UNCHANGED <<requests, audit>>

\* ---------------------------------------------------------- specifications
Init ==
    /\ requests = <<>>
    /\ audit = {}
    /\ assignments = <<[user_id |-> "m1", shift_id |-> "sA",
                        valid_from |-> 0, valid_to |-> NoneT]>>
    /\ sess = [w \in Workers |-> Idle]

\* Sequential execution of the request workflow: every call runs on worker
\* w1, one after the other; the table holds at most MaxRequests rows.
Next ==
    \/ \E c \in SubmitCalls :
          submit_request("w1", c.current, c.payload) /\ Len(requests') <= MaxRequests
    \/ \E current \in UserIds, rid \in RequestIds : cancel_request("w1", current, rid)
    \/ \E current \in UserIds, rid \in RequestIds : approve_request("w1", current, rid)
    \/ \E current \in UserIds, rid \in RequestIds : reject_request("w1", current, rid)
    \/ LogCommit("w1")
    \/ Respond("w1")

Spec == Init /\ [][Next]_vars

\* The requests the reconciled week reads, in every status: m1 files absences
\* from the Monday shift, m2 extra work on the Tuesday shift; they are
\* approved, rejected and cancelled, and the week is read from the Monday and
\* from the Tuesday, for everybody or for m1.
ViewStarts == {0, 1}
ViewFilters == {NoneId, "m1"}

ViewCalls ==
    {[current |-> "m1", payload |-> PayloadShift("ABSENCE", 0, NoneId, "sA")],
     [current |-> "m1",
      payload |-> PayloadRangesOf("ABSENCE", 0, NoneId, <<Rg("sA", 10, 11)>>)],
     [current |-> "m2", payload |-> PayloadShift("EXTRA", 1, NoneId, "sB")]}

NextView ==
    \/ \E c \in ViewCalls :
          submit_request("w1", c.current, c.payload) /\ Len(requests') <= MaxView
    \/ \E current \in {"m1", "op"}, rid \in RequestIds :
          cancel_request("w1", current, rid)
    \/ \E rid \in RequestIds : approve_request("w1", "op", rid)
    \/ \E rid \in RequestIds : reject_request("w1", "op", rid)
    \/ LogCommit("w1")
    \/ \E start \in ViewStarts, user_id \in ViewFilters :
          weekly_view("w1", "op", start, user_id)
    \/ Respond("w1")

SpecView == Init /\ [][NextView]_vars

\* The reconciliation engine on the tables the workflow produces: member m1
\* files absences against the Monday shift, the operator approves them, and
\* the week is queried.
CutWindows == {<<NoneT, NoneT>>, <<9, 11>>, <<10, 11>>, <<10, 12>>}

NextCalc ==
    \/ \E win \in CutWindows :
          /\ submit_request("w1", "m1",
                 PayloadRangesOf("ABSENCE", 0, NoneId, <<Rg("sA", win[1], win[2])>>))
          /\ Len(requests') <= MaxCuts
    \/ \E rid \in RequestIds : approve_request("w1", "op", rid)
    \/ LogCommit("w1")
    \/ \E current \in {"m1", "op"}, user_id \in {NoneId, "m1"} :
          weekly_view("w1", current, 0, user_id)
    \/ Respond("w1")

SpecCalc == Init /\ [][NextCalc]_vars

\* Extra work in the reconciled week: members m1 and m2 ask for extra work on
\* the Tuesday shift, with or without hours of their own, m1 also files
\* absences from the Monday shift or from an hour of it, the operator
\* approves, and the week is queried from Monday and from Wednesday, for everybody or one member.
ExtraWindows == {<<NoneT, NoneT>>, <<13, 15>>}
ExtraCuts == {<<NoneT, NoneT>>, <<10, 11>>}
ExtraStarts == {0, 2}
ExtraFilters == {NoneId, "m1", "m2"}

NextExtra ==
    \/ \E u \in {"m1", "m2"}, win \in ExtraWindows :
          /\ submit_request("w1", u,
                 PayloadRangesOf("EXTRA", 1, NoneId, <<Rg("sB", win[1], win[2])>>))
          /\ Len(requests') <= MaxExtras
    \/ \E win \in ExtraCuts :
          /\ submit_request("w1", "m1",
                 PayloadRangesOf("ABSENCE", 0, NoneId, <<Rg("sA", win[1], win[2])>>))
          /\ Len(requests') <= MaxExtras
    \/ \E rid \in RequestIds : approve_request("w1", "op", rid)
    \/ LogCommit("w1")
    \/ \E start \in ExtraStarts, user_id \in ExtraFilters :
          weekly_view("w1", "op", start, user_id)
    \/ Respond("w1")

SpecExtra == Init /\ [][NextExtra]_vars

\* Bodies with several ranges, filed by m1 for the Monday: a window of the
\* assigned shift sA alone, and the range 11-12 of sA followed by a range that
\* names an unknown shift, the Tuesday shift, a window outside the shift, a
\* window overlapping the one filed alone, or the shift sC m1 does not work;
\* the hours 10-24 of sA alone; as EXTRA, the free shift sC followed by the
\* assigned sA, the Tuesday shift alone, and the hours 9-10 of sC, which lie
\* outside that shift. The operator and the master file for themselves and
\* the operator for the master.
BatchCalls ==
    {[current |-> "m1", payload |-> PayloadRangesOf("ABSENCE", 0, NoneId, rs)] :
        rs \in {<<Rg("sA", 9, 10)>>,
                <<Rg("sA", 11, 12), Rg("sX", NoneT, NoneT)>>,
                <<Rg("sA", 11, 12), Rg("sB", NoneT, NoneT)>>,
                <<Rg("sA", 11, 12), Rg("sA", 8, 10)>>,
                <<Rg("sA", 11, 12), Rg("sA", 9, 11)>>,
                <<Rg("sA", 11, 12), Rg("sC", NoneT, NoneT)>>,
                <<Rg("sA", 10, 11), Rg("sA", 11, 12), Rg("sA", 12, 11)>>,
                <<Rg("sA", 10, 24)>>}}
    \cup {[current |-> "m1", payload |-> PayloadRangesOf("EXTRA", 0, NoneId, rs)] :
             rs \in {<<Rg("sC", NoneT, NoneT), Rg("sA", NoneT, NoneT)>>,
                     <<Rg("sB", NoneT, NoneT)>>,
                     <<Rg("sC", 9, 10)>>}}
    \* the operator and the master for themselves, the operator for the master
    \cup {[current |-> c, payload |-> PayloadShift("EXTRA", 0, NoneId, "sC")] :
             c \in {"op", "ma"}}
    \cup {[current |-> "op", payload |-> PayloadShift("EXTRA", 0, "ma", "sC")]}

NextBatch ==
    \/ \E c \in BatchCalls :
          submit_request("w1", c.current, c.payload) /\ Len(requests') <= MaxBatch
    \/ \E rid \in RequestIds : cancel_request("w1", "m1", rid)
    \/ LogCommit("w1")
    \/ Respond("w1")

SpecBatch == Init /\ [][NextBatch]_vars

\* Two workers serving submit_request at the same time, each call one step
\* for its queries and one for its commit: m1 files absences on the Monday
\* shift, for the whole shift or for the hours 9-11, 10-12 and 11-12; the rows
\* stored and about to be stored are at most MaxRace.
RaceCalls ==
    {[current |-> "m1", payload |-> PayloadRangesOf("ABSENCE", 0, NoneId, <<r>>)] :
        r \in {Rg("sA", NoneT, NoneT), Rg("sA", 9, 11), Rg("sA", 10, 12), Rg("sA", 11, 12)}}

InFlight == {w \in Workers : sess[w].pc = "add"}

NextRace ==
    \/ \E w \in Workers, c \in RaceCalls :
          /\ Len(requests) + Cardinality(InFlight) < MaxRace
          /\ submit_check(w, c.current, c.payload)
    \/ \E w \in Workers : submit_commit(w)
    \/ \E w \in Workers : LogCommit(w)
    \/ \E w \in Workers : Respond(w)

SpecRace == Init /\ [][NextRace]_vars

\* Requests decided after the assignments have changed: m1 files an ABSENCE
\* for the assigned Monday shift and m2 an EXTRA for the same shift, free for
\* m2, and an ABSENCE for it; the operator deletes assignments, assigns the
\* shift to m2, approves, and queries the week.
DecideCalls ==
    {[current |-> "m1", payload |-> PayloadShift("ABSENCE", 0, NoneId, "sA")],
     [current |-> "m2", payload |-> PayloadShift("EXTRA", 0, NoneId, "sA")],
     [current |-> "m2", payload |-> PayloadShift("ABSENCE", 0, NoneId, "sA")]}

DecideFilters == {NoneId, "m2"}

NextDecide ==
    \/ \E c \in DecideCalls :
          submit_request("w1", c.current, c.payload) /\ Len(requests') <= MaxDecide
    \/ /\ assign_slot("w1", "op", SlotAssign("m2", 0, 9, 12, 0, NoneT))
       /\ Len(assignments') <= MaxAssignments
    \/ \E aid \in AssignmentIds : delete_assignment("w1", "op", aid)
    \/ \E current \in {"op", "m1"}, rid \in RequestIds : approve_request("w1", current, rid)
    \/ LogCommit("w1")
    \/ \E user_id \in DecideFilters : weekly_view("w1", "op", 0, user_id)
    \/ Respond("w1")

SpecDecide == Init /\ [][NextDecide]_vars

\* Two workers deciding at the same time on the requests m1 has filed: each
\* approve_request and cancel_request call is one step for its query and one
\* for its commit.
NextConcur ==
    \/ /\ submit_request("w1", "m1", PayloadShift("ABSENCE", 0, NoneId, "sA"))
       /\ Len(requests') <= MaxConcur
    \/ \E w \in Workers, rid \in RequestIds : approve_read(w, "op", rid)
    \/ \E w \in Workers, rid \in RequestIds : cancel_read(w, "m1", rid)
    \/ \E w \in Workers : row_commit(w)
    \/ \E w \in Workers : LogCommit(w)
    \/ \E w \in Workers : Respond(w)

SpecConcur == Init /\ [][NextConcur]_vars

\* The assignments table under the operator's hands, with no request filed:
\* slots are assigned with validity windows around the days 0, 1 and 7,
\* assignments are deleted, and the week is queried from day 0 and day 1 by
\* the operator and by the member m2.
AssignCalls ==
    {SlotAssign("m1", wd, 9, 12, vf, vt) :
        wd \in {0, 1}, vf \in {0, 1, 7, 8}, vt \in {NoneT, 0, 7}}
    \cup {SlotAssign("m2", 0, 9, 12, 0, NoneT), SlotAssign("op", 0, 9, 12, 0, NoneT),
          SlotAssign("m1", 0, 8, 12, 0, NoneT)}

BaseStarts == {0, 1}
BaseFilters == {NoneId, "m1", "m2"}

NextBase ==
    \/ \E current \in {"op", "m1"}, p \in AssignCalls :
          assign_slot("w1", current, p) /\ Len(assignments') <= MaxAssignments
    \/ \E current \in {"op", "m1"}, aid \in AssignmentIds :
          delete_assignment("w1", current, aid)
    \/ LogCommit("w1")
    \/ \E current \in {"op", "m2"}, start \in BaseStarts, user_id \in BaseFilters :
          weekly_view("w1", current, start, user_id)
    \/ Respond("w1")

SpecBase == Init /\ [][NextBase]_vars

\* ------------------------------------------------------------------ claims
Rows == 1..Len(requests)

\* C1: once a request is REJECTED or CANCELLED no call changes its status.
C1_RejectedCancelledTerminal ==
    [][\A rid \in Rows :
          requests[rid].status \in {"REJECTED", "CANCELLED"}
          => requests'[rid].status = requests[rid].status]_vars

\* C2: an APPROVED request is never rejected or re-approved: the only status
\* that follows APPROVED is CANCELLED.
C2_ApprovedOnlyCancels ==
    [][\A rid \in Rows :
          requests[rid].status = "APPROVED"
          => requests'[rid].status \in {"APPROVED", "CANCELLED"}]_vars

\* the audit action that records a status
ActionOfStatus(st) ==
    CASE st = "APPROVED" -> "REQUEST_APPROVE"
      [] st = "REJECTED" -> "REQUEST_REJECT"
      [] st = "CANCELLED" -> "REQUEST_CANCEL"
      [] OTHER -> "REQUEST_SUBMIT"

\* C3: in every committed state a request's creation and its status change
\* are persisted together with the matching audit record, and no audit
\* record is persisted without its request.
C3_StatusAuditAtomic ==
    /\ \A rid \in Rows :
          /\ <<"REQUEST_SUBMIT", rid>> \in audit
          /\ <<ActionOfStatus(requests[rid].status), rid>> \in audit
    /\ \A l \in audit : l[2] \in Rows

\* the requests a week honours: APPROVED with target_date in [start, start+6]
Honoured(reqs, start) ==
    LET keep(r) == /\ r.status = "APPROVED"
                   /\ start <= r.target_date
                   /\ r.target_date <= start + 6
    IN SelectSeq(reqs, keep)

\* the table with row rid taken out
Without(reqs, rid) == SubSeq(reqs, 1, rid - 1) \o SubSeq(reqs, rid + 1, Len(reqs))

\* C4: week_events is a function of the assignments and of exactly the
\* APPROVED requests dated in [start, start+6]: it equals the result on the
\* table reduced to those rows; and after cancel_request on an APPROVED
\* request week_events equals the result computed without that request.
C4_OnlyApprovedAffectSchedule ==
    /\ [](\A start \in ViewStarts, uf \in ViewFilters :
             week_events(requests, assignments, start, uf)
                = week_events(Honoured(requests, start), assignments, start, uf))
    /\ [][\A current \in UserIds, rid \in Rows :
             (cancel_request("w1", current, rid) /\ requests[rid].status = "APPROVED"
                                                 /\ requests' # requests)
             => \A start \in ViewStarts, uf \in ViewFilters :
                   week_events(requests', assignments', start, uf)
                      = week_events(Without(requests, rid), assignments, start, uf)]_vars

\* an ABSENCE cancelled after approval whose BASE event is whole again, next
\* to a request that is still PENDING
C4_Witness ==
    /\ \E rid \in Rows : /\ requests[rid].status = "CANCELLED"
                         /\ requests[rid].cancelled_after_approval
                         /\ requests[rid].type = "ABSENCE"
                         /\ requests[rid].target_date = 0
    /\ \E rid \in Rows : requests[rid].status = "PENDING"
    /\ \E i \in 1..Len(week_events(requests, assignments, 0, "m1")) :
          LET ev == week_events(requests, assignments, 0, "m1")[i]
          IN ev.source = "BASE" /\ ev.start_time = Shift("sA").start_time
                                /\ ev.end_time = Shift("sA").end_time

\* the minutes of the day the events of evs cover
Covered(evs) ==
    {m \in 0..1439 : \E i \in 1..Len(evs) :
                        evs[i].start_time <= m /\ m < evs[i].end_time}

\* the minutes an approved ABSENCE cuts out of the shift it names
CutMinutes(req) ==
    LET shift == Shift(req.target_shift_id)
    IN IF req.target_start_time = NoneT \/ req.target_end_time = NoneT
       THEN {m \in 0..1439 : shift.start_time <= m /\ m < shift.end_time}
       ELSE {m \in 0..1439 : req.target_start_time <= m /\ m < req.target_end_time}

\* the table in every order of its rows
Reorderings(reqs) ==
    {[i \in 1..Len(reqs) |-> reqs[f[i]]] : f \in Permutations(1..Len(reqs))}

\* the BASE events of m1 on the Monday shift of week 0
MondayBase(reqs) ==
    LET isBase(ev) == ev.source = "BASE" /\ ev.shift_id = "sA" /\ ev.date = 0
    IN SelectSeq(week_events(reqs, assignments, 0, "m1"), isBase)

\* C5: for the BASE interval [s,e) of the Monday shift and the approved
\* ABSENCE cuts on it, the segments week_events returns are pairwise disjoint
\* and cover exactly [s,e) minus the union of the cut windows, and the result
\* is the same for every order of the cuts.
C5_CutsAreSetDifference ==
    LET cuts == {rid \in Rows : requests[rid].status = "APPROVED"}
        whole == {m \in 0..1439 : Shift("sA").start_time <= m /\ m < Shift("sA").end_time}
        left == whole \ UNION {CutMinutes(requests[rid]) : rid \in cuts}
        segs == MondayBase(requests)
    IN /\ Covered(segs) = left
       /\ \A i, j \in 1..Len(segs) :
             i # j => (segs[i].end_time <= segs[j].start_time
                       \/ segs[j].end_time <= segs[i].start_time)
       /\ \A i \in 1..Len(segs) : segs[i].start_time < segs[i].end_time
       /\ \A perm \in Reorderings(requests) :
             week_events(perm, assignments, 0, "m1")
                = week_events(requests, assignments, 0, "m1")

\* two approved cuts with different windows that overlap in part, a cut
\* still pending, and the week returned with one segment left of the shift
C5_Witness ==
    /\ \E a, b \in Rows :
          /\ requests[a].status = "APPROVED" /\ requests[b].status = "APPROVED"
          /\ requests[a].target_start_time # NoneT
          /\ requests[b].target_start_time # NoneT
          /\ requests[a].target_start_time < requests[b].target_start_time
          /\ requests[b].target_start_time < requests[a].target_end_time
    /\ \E c \in Rows : requests[c].status = "PENDING"
    /\ sess["w1"].pc = "done"
    /\ sess["w1"].op = "weekly_view"
    /\ sess["w1"].code = 200
    /\ Len(sess["w1"].body) = 1

\* two windows overlap; a null window overlaps everything
WindowsMeet(a_start, a_end, b_start, b_end) ==
    \/ a_start = NoneT \/ a_end = NoneT \/ b_start = NoneT \/ b_end = NoneT
    \/ (a_start < b_end /\ b_start < a_end)

\* the caller of call c may file a request for its target user
MayFile(c) ==
    LET target == TargetUser(c.current, c.payload)
    IN /\ target \in UserIds
       /\ Role(target) = "MEMBER"
       /\ (Role(c.current) = "MEMBER" => target = c.current)

\* the window a range asks for, in minutes; null when it gives no hours
RangeWindow(r) ==
    IF r.start_hour = NoneT \/ r.end_hour = NoneT THEN <<NoneT, NoneT>>
    ELSE <<60 * r.start_hour, 60 * r.end_hour>>

\* range r of body p names a known shift of the date's weekday and a window
\* that is in order and, for an ABSENCE, inside the shift
WellFormed(p, r) ==
    /\ r.shift_id \in ShiftIds
    /\ Shift(r.shift_id).weekday = p.target_date % 7
    /\ (r.start_hour # NoneT /\ r.end_hour # NoneT) =>
          /\ r.start_hour < r.end_hour
          /\ p.type = "ABSENCE" =>
                /\ Shift(r.shift_id).start_time <= 60 * r.start_hour
                /\ 60 * r.end_hour <= Shift(r.shift_id).end_time

\* a request with a status of sts exists for the (target user, date, shift) of
\* range r of call c, its window overlapping the one of r
Clashes(c, r, sts) ==
    \E rid \in Rows :
       /\ requests[rid].user_id = TargetUser(c.current, c.payload)
       /\ requests[rid].target_date = c.payload.target_date
       /\ requests[rid].target_shift_id = r.shift_id
       /\ requests[rid].status \in sts
       /\ WindowsMeet(requests[rid].target_start_time, requests[rid].target_end_time,
                      RangeWindow(r)[1], RangeWindow(r)[2])

\* the response of the call worker w1 has just run, and the call it answers
Answer == sess'["w1"]
Call == [current |-> Answer.args[1], payload |-> Answer.args[2]]

\* the step is a call of submit_request
Submitted ==
    /\ sess["w1"].pc = "idle" /\ Answer.pc # "idle"
    /\ Answer.op = "submit_request"
    /\ submit_request("w1", Call.current, Call.payload)

\* C6 as stated: submit_request is refused with the conflict error and
\* creates nothing whenever a request that is not CANCELLED (PENDING,
\* APPROVED or REJECTED) of the same (target user, date, shift) overlaps the
\* requested window; taken for calls that pass every earlier check.
C6_GuardCoversNonCancelled ==
    [][(/\ Submitted
        /\ MayFile(Call)
        /\ PayloadRanges(Call.payload) # <<>>
        /\ WellFormed(Call.payload, PayloadRanges(Call.payload)[1])
        /\ Clashes(Call, PayloadRanges(Call.payload)[1],
                   {"PENDING", "APPROVED", "REJECTED"}))
       => /\ Answer.pc = "done" /\ Answer.code = 409
          /\ UNCHANGED requests]_vars

\* C6: the duplicate/overlap guard covers PENDING requests: submit_request
\* creates nothing whenever a PENDING request of the same (target user, date,
\* shift) overlaps a requested window, and answers with the conflict error
\* when the call passes the earlier checks and that window is its first; the
\* conflict error is raised only against an overlapping PENDING request.
C6_GuardCoversPending ==
    [][Submitted =>
          LET ranges == PayloadRanges(Call.payload)
              clash == \E i \in 1..Len(ranges) : Clashes(Call, ranges[i], {"PENDING"})
          IN /\ clash => (Answer.pc = "done" /\ Answer.code # 201 /\ UNCHANGED requests)
             /\ (/\ MayFile(Call) /\ ranges # <<>>
                 /\ WellFormed(Call.payload, ranges[1])
                 /\ Clashes(Call, ranges[1], {"PENDING"}))
                   => (Answer.pc = "done" /\ Answer.code = 409)
             /\ (Answer.pc = "done" /\ Answer.code = 409) => clash]_vars

\* a submit refused with the conflict error while a PENDING request is
\* stored, next to a request that is APPROVED
C6_Witness ==
    /\ sess["w1"].pc = "done" /\ sess["w1"].op = "submit_request"
    /\ sess["w1"].code = 409 /\ sess["w1"].detail = "pending overlap"
    /\ \E rid \in Rows :
          /\ requests[rid].status = "PENDING"
          /\ requests[rid].user_id = TargetUser(sess["w1"].args[1], sess["w1"].args[2])
          /\ requests[rid].target_date = sess["w1"].args[2].target_date
          /\ requests[rid].target_start_time # NoneT
    /\ \E rid \in Rows : requests[rid].status = "APPROVED"

\* C7: under sequential execution the table never holds two PENDING requests
\* for the same (user, target_date, target_shift) whose windows overlap.
C7_NoOverlappingPending ==
    \A a, b \in Rows :
       (/\ a # b
        /\ requests[a].status = "PENDING" /\ requests[b].status = "PENDING"
        /\ requests[a].user_id = requests[b].user_id
        /\ requests[a].target_date = requests[b].target_date
        /\ requests[a].target_shift_id = requests[b].target_shift_id)
       => ~WindowsMeet(requests[a].target_start_time, requests[a].target_end_time,
                       requests[b].target_start_time, requests[b].target_end_time)

\* the reconciled week of the target user of call c holds an event for the
\* shift of range r on the date of the call
HasEvent(c, r) ==
    LET target == TargetUser(c.current, c.payload)
        d == c.payload.target_date
        events == week_events(requests, assignments, d - (d % 7), target)
    IN \E i \in 1..Len(events) :
          events[i].shift_id = r.shift_id /\ events[i].date = d

\* call c is of type type, by a caller who may file it, for known shifts
Admissible(c, type) ==
    /\ c.payload.type = type
    /\ MayFile(c)
    /\ PayloadRanges(c.payload) # <<>>
    /\ \A i \in 1..Len(PayloadRanges(c.payload)) :
          PayloadRanges(c.payload)[i].shift_id \in ShiftIds

\* C8 as stated: an ABSENCE naming a (shift, date) with no event in the
\* user's reconciled week is refused with the validation error and creates
\* nothing.
C8_AbsenceRefusedAsValidation ==
    [][(/\ Submitted
        /\ Admissible(Call, "ABSENCE")
        /\ \E i \in 1..Len(PayloadRanges(Call.payload)) :
              ~HasEvent(Call, PayloadRanges(Call.payload)[i]))
       => /\ Answer.pc = "done" /\ Answer.code = 400
          /\ UNCHANGED requests]_vars

\* C8: an ABSENCE is accepted only if the user's reconciled week holds an
\* event for every (shift, date) it names; otherwise it creates nothing and
\* is refused with the validation error, or with the conflict error when a
\* PENDING request overlaps a requested window.
C8_AbsenceNeedsSlot ==
    [][(Submitted /\ Admissible(Call, "ABSENCE")) =>
          LET ranges == PayloadRanges(Call.payload)
          IN IF \A i \in 1..Len(ranges) : HasEvent(Call, ranges[i])
             THEN TRUE
             ELSE /\ UNCHANGED requests
                  /\ Answer.pc = "done"
                  /\ Answer.code \in {400, 409}
                  /\ Answer.code = 409
                        => \E i \in 1..Len(ranges) : Clashes(Call, ranges[i], {"PENDING"})]_vars

\* an ABSENCE refused because the slot is gone: the Monday shift of m1 is
\* cut away by an approved full absence
C8_Witness ==
    /\ sess["w1"].pc = "done" /\ sess["w1"].op = "submit_request"
    /\ sess["w1"].code = 400 /\ sess["w1"].detail = "absence needs slot"
    /\ sess["w1"].args[2].type = "ABSENCE" /\ sess["w1"].args[2].target_date = 0
    /\ \E rid \in Rows : requests[rid].status = "APPROVED" /\ requests[rid].type = "ABSENCE"
    /\ week_events(requests, assignments, 0, "m1") = <<>>

\* C9 as stated: an EXTRA naming a (shift, date) that has an event in the
\* user's reconciled week is refused with the validation error and creates
\* nothing.
C9_ExtraRefusedAsValidation ==
    [][(/\ Submitted
        /\ Admissible(Call, "EXTRA")
        /\ \E i \in 1..Len(PayloadRanges(Call.payload)) :
              HasEvent(Call, PayloadRanges(Call.payload)[i]))
       => /\ Answer.pc = "done" /\ Answer.code = 400
          /\ UNCHANGED requests]_vars

\* C9: an EXTRA is accepted only if the user's reconciled week holds no
\* event (BASE-derived or EXTRA) for any (shift, date) it names; otherwise it
\* creates nothing and is refused with the validation error, or with the
\* conflict error when a PENDING request overlaps a requested window.
C9_ExtraNeedsFreeSlot ==
    [][(Submitted /\ Admissible(Call, "EXTRA")) =>
          LET ranges == PayloadRanges(Call.payload)
          IN IF \A i \in 1..Len(ranges) : ~HasEvent(Call, ranges[i])
             THEN TRUE
             ELSE /\ UNCHANGED requests
                  /\ Answer.pc = "done"
                  /\ Answer.code \in {400, 409}
                  /\ Answer.code = 409
                        => \E i \in 1..Len(ranges) : Clashes(Call, ranges[i], {"PENDING"})]_vars

\* an EXTRA refused because the slot is taken by an approved EXTRA of the
\* Tuesday shift
C9_Witness ==
    /\ sess["w1"].pc = "done" /\ sess["w1"].op = "submit_request"
    /\ sess["w1"].code = 400 /\ sess["w1"].detail = "extra slot taken"
    /\ sess["w1"].args[2].type = "EXTRA" /\ sess["w1"].args[2].target_date = 1
    /\ \E rid \in Rows : /\ requests[rid].status = "APPROVED"
                         /\ requests[rid].type = "EXTRA"
                         /\ requests[rid].target_shift_id = "sB"
    /\ Len(requests) = 1

\* C10: cancel_request changes a request only from PENDING or APPROVED; it
\* then sets CANCELLED with a cancel_reason, and cancelled_after_approval is
\* true exactly when the status before was APPROVED; every other call is
\* refused and changes nothing.
C10_CancelRecordsEnding ==
    [][\A current \in UserIds, rid \in RequestIds :
          cancel_request("w1", current, rid) =>
             IF requests' # requests
             THEN /\ rid \in Rows
                  /\ requests[rid].status \in {"PENDING", "APPROVED"}
                  /\ requests'[rid].status = "CANCELLED"
                  /\ requests'[rid].cancel_reason # NoneId
                  /\ requests'[rid].cancelled_after_approval
                        = (requests[rid].status = "APPROVED")
                  /\ \A other \in Rows \ {rid} : requests'[other] = requests[other]
             ELSE /\ sess'["w1"].pc = "done"
                  /\ sess'["w1"].code \in {400, 403, 404}
                  /\ UNCHANGED audit]_vars

C10_Witness ==
    /\ \E rid \in Rows : /\ requests[rid].status = "CANCELLED"
                         /\ requests[rid].cancelled_after_approval
    /\ \E rid \in Rows : /\ requests[rid].status = "CANCELLED"
                         /\ ~requests[rid].cancelled_after_approval
    /\ sess["w1"] = Done("cancel_request", <<>>, 400, "", <<>>)

\* C11: approve_request on a CANCELLED or APPROVED request and reject_request
\* on a CANCELLED or REJECTED request, called by an operator, are refused with
\* the conflict error (409), not the validation error (400), and leave the
\* request and the audit log unchanged.
C11_StaleTransitionIsConflict ==
    [][\A current \in {"op", "ma"}, rid \in Rows :
          /\ (approve_request("w1", current, rid)
              /\ requests[rid].status \in {"CANCELLED", "APPROVED"})
                => (Answer.pc = "done" /\ Answer.code = 409
                    /\ UNCHANGED <<requests, audit>>)
          /\ (reject_request("w1", current, rid)
              /\ requests[rid].status \in {"CANCELLED", "REJECTED"})
                => (Answer.pc = "done" /\ Answer.code = 409
                    /\ UNCHANGED <<requests, audit>>)]_vars

\* the (start_time, end_time) of each event of evs, in order
Spans(evs) == [i \in 1..Len(evs) |-> <<evs[i].start_time, evs[i].end_time>>]

\* the approved requests of the table
ApprovedRows == {rid \in Rows : requests[rid].status = "APPROVED"}

\* C12: with a single approved ABSENCE [a,b) on the BASE interval [s,e) of
\* the Monday shift, week_events returns for that slot the BASE segments
\* [s,a) and [b,e) in that order when s < a < b < e, and only the one
\* non-empty segment when a = s or b = e.
C12_PartialAbsenceSplits ==
    \A rid \in ApprovedRows :
       (ApprovedRows = {rid} /\ requests[rid].target_start_time # NoneT) =>
          LET a == requests[rid].target_start_time
              b == requests[rid].target_end_time
              s == Shift("sA").start_time
              e == Shift("sA").end_time
              spans == Spans(MondayBase(requests))
          IN /\ (s < a /\ b < e) => spans = <<<<s, a>>, <<b, e>>>>
             /\ (a = s /\ b < e) => spans = <<<<b, e>>>>
             /\ (s < a /\ b = e) => spans = <<<<s, a>>>>

\* the week returned with the two segments around a single approved cut in
\* the middle of the shift
C12_Witness ==
    /\ \E rid \in Rows : /\ ApprovedRows = {rid}
                         /\ Shift("sA").start_time < requests[rid].target_start_time
                         /\ requests[rid].target_end_time < Shift("sA").end_time
    /\ sess["w1"].pc = "done" /\ sess["w1"].op = "weekly_view"
    /\ sess["w1"].code = 200
    /\ Len(sess["w1"].body) = 2
    /\ sess["w1"].body[1].end_time < sess["w1"].body[2].start_time

\* C13: an approved ABSENCE without a window covers the whole BASE interval:
\* week_events returns no BASE segment for its (user, date, shift), whatever
\* other cuts exist and in whatever order the requests are read.
C13_FullAbsenceRemovesSlot ==
    (\E rid \in ApprovedRows : /\ requests[rid].type = "ABSENCE"
                               /\ requests[rid].target_start_time = NoneT
                               /\ requests[rid].target_end_time = NoneT)
    => \A perm \in Reorderings(requests) :
          \A i \in 1..Len(week_events(perm, assignments, 0, "m1")) :
             LET ev == week_events(perm, assignments, 0, "m1")[i]
             IN ~(ev.source = "BASE" /\ ev.shift_id = "sA" /\ ev.date = 0)

\* an approved absence without a window next to an approved partial cut, and
\* the week returned empty
C13_Witness ==
    /\ \E rid \in ApprovedRows : requests[rid].target_start_time = NoneT
    /\ \E rid \in ApprovedRows : requests[rid].target_start_time # NoneT
    /\ sess["w1"].pc = "done" /\ sess["w1"].op = "weekly_view"
    /\ sess["w1"].code = 200
    /\ sess["w1"].body = <<>>

\* the event an APPROVED EXTRA request stands for
ExtraOf(req) ==
    [user_id |-> req.user_id, date |-> req.target_date,
     start_time |-> IF req.target_start_time = NoneT
                    THEN Shift(req.target_shift_id).start_time
                    ELSE req.target_start_time,
     end_time |-> IF req.target_end_time = NoneT
                  THEN Shift(req.target_shift_id).end_time
                  ELSE req.target_end_time,
     shift_id |-> req.target_shift_id, valid_from |-> NoneT, valid_to |-> NoneT,
     source |-> "EXTRA"]

\* C14: the EXTRA events of week_events are, one for one, the APPROVED EXTRA
\* requests dated in the queried week that match the user filter, each with
\* the request's date, user and shift, its own window if it has one and the
\* shift's start and end otherwise, and null valid_from/valid_to.
C14_ExtraEvents ==
    \A start \in ExtraStarts, uf \in ExtraFilters :
       LET isExtra(ev) == ev.source = "EXTRA"
           counts(r) == /\ r.type = "EXTRA" /\ r.status = "APPROVED"
                        /\ start <= r.target_date /\ r.target_date <= start + 6
                        /\ (uf # NoneId => r.user_id = uf)
           rs == SelectSeq(requests, counts)
       IN SelectSeq(week_events(requests, assignments, start, uf), isExtra)
             = [i \in 1..Len(rs) |-> ExtraOf(rs[i])]

\* an approved EXTRA of m1 with its own window, an approved ABSENCE and a
\* PENDING EXTRA of m2, returned in the week as the one EXTRA event of m1
C14_Witness ==
    /\ \E rid \in ApprovedRows : /\ requests[rid].type = "EXTRA"
                                 /\ requests[rid].target_start_time # NoneT
    /\ \E rid \in ApprovedRows : requests[rid].type = "ABSENCE"
    /\ \E rid \in Rows : requests[rid].type = "EXTRA" /\ requests[rid].status = "PENDING"
    /\ sess["w1"].pc = "done" /\ sess["w1"].op = "weekly_view"
    /\ \E i \in 1..Len(sess["w1"].body) :
          /\ sess["w1"].body[i].source = "EXTRA"
          /\ sess["w1"].body[i].start_time # Shift("sB").start_time
    /\ Cardinality({i \in 1..Len(sess["w1"].body) : sess["w1"].body[i].source = "EXTRA"}) = 1
    /\ sess["w1"].body[Len(sess["w1"].body)].user_id = "m1"

\* assignment a gives a BASE event on date d of the week from start: d is one
\* of the 7 dates, on the weekday of a's shift, and within a's validity, both
\* bounds inclusive
Emits(a, d, start) ==
    /\ start <= d /\ d <= start + 6
    /\ Shift(a.shift_id).weekday = d % 7
    /\ a.valid_from <= d
    /\ (a.valid_to = NoneT \/ a.valid_to >= d)

\* the BASE event of assignment a on date d, with the shift's full hours
BaseOf(a, d) ==
    [user_id |-> a.user_id, date |-> d,
     start_time |-> Shift(a.shift_id).start_time,
     end_time |-> Shift(a.shift_id).end_time,
     shift_id |-> a.shift_id, valid_from |-> a.valid_from, valid_to |-> a.valid_to,
     source |-> "BASE"]

\* C15: with no approved request, week_events(start, user) holds exactly one
\* BASE event for (assignment, date d) when d is one of start..start+6, on the
\* weekday of the assignment's shift, with valid_from <= d and valid_to
\* absent or >= d, and none otherwise; it holds nothing else.
C15_BaseEmission ==
    ApprovedRows = {} =>
       \A start \in BaseStarts, uf \in BaseFilters :
          LET evs == week_events(requests, assignments, start, uf)
              mine == {i \in 1..Len(assignments) :
                          uf # NoneId => assignments[i].user_id = uf}
              days == (start - 1)..(start + 7)
          IN /\ \A i \in mine, d \in days :
                   Cardinality({k \in 1..Len(evs) : evs[k] = BaseOf(assignments[i], d)})
                      = IF Emits(assignments[i], d, start) THEN 1 ELSE 0
             /\ Len(evs) = Cardinality({<<i, d>> \in mine \X days :
                                           Emits(assignments[i], d, start)})

\* the week from day 1 returned with an event on day 7, the first day of
\* validity of its assignment, while another assignment ended on day 0
C15_Witness ==
    /\ sess["w1"].pc = "done" /\ sess["w1"].op = "weekly_view"
    /\ \E k \in 1..Len(sess["w1"].body) :
          /\ sess["w1"].body[k].date = 7
          /\ sess["w1"].body[k].valid_from = 7
          /\ sess["w1"].body[k].valid_to = 7
    /\ \E i \in 1..Len(assignments) : assignments[i].valid_to = 0

\* C16: submit_request by a MEMBER for a target user other than themself,
\* and by an OPERATOR on behalf of a MASTER, is refused with the
\* permission-denied error (403) and creates no request and no audit record.
C16_SubmissionAuthorization ==
    [][(/\ Submitted
        /\ TargetUser(Call.current, Call.payload) \in UserIds
        /\ \/ /\ Role(Call.current) = "MEMBER"
              /\ TargetUser(Call.current, Call.payload) # Call.current
           \/ /\ Role(Call.current) = "OPERATOR"
              /\ Role(TargetUser(Call.current, Call.payload)) = "MASTER")
       => /\ Answer.pc = "done" /\ Answer.code = 403
          /\ UNCHANGED <<requests, audit>>]_vars

\* range r of call c fails a check of the loop: unknown shift, weekday
\* mismatch or window out of range, duplicate, admission guard
Fails(c, r) ==
    \/ r.shift_id \notin ShiftIds
    \/ ~WellFormed(c.payload, r)
    \/ Clashes(c, r, {"PENDING"})
    \/ c.payload.type = "ABSENCE" /\ ~HasEvent(c, r)
    \/ c.payload.type = "EXTRA" /\ HasEvent(c, r)

\* C17: when any range of a submit_request call fails a check, the call is
\* refused and no request of the call is persisted, the ranges processed
\* before the failing one included; the audit log is left as it was.
C17_AllOrNothing ==
    [][(Submitted /\ \E i \in 1..Len(PayloadRanges(Call.payload)) :
                        Fails(Call, PayloadRanges(Call.payload)[i]))
       => /\ Answer.pc = "done" /\ Answer.code # 201
          /\ UNCHANGED <<requests, audit>>]_vars

\* a call refused for the duplicate check on its second range, the first
\* range having passed every check, next to a PENDING request
C17_Witness ==
    /\ sess["w1"].pc = "done" /\ sess["w1"].op = "submit_request"
    /\ sess["w1"].code = 409
    /\ LET c == [current |-> sess["w1"].args[1], payload |-> sess["w1"].args[2]]
           ranges == PayloadRanges(c.payload)
       IN /\ Len(ranges) = 2
          /\ ~Fails(c, ranges[1])
          /\ Clashes(c, ranges[2], {"PENDING"})
    /\ \E rid \in Rows : requests[rid].status = "CANCELLED"

\* rows i and j are PENDING requests of the same (user, date, shift) with
\* overlapping windows
OverlappingPending(i, j) ==
    /\ i # j
    /\ requests[i].status = "PENDING" /\ requests[j].status = "PENDING"
    /\ requests[i].user_id = requests[j].user_id
    /\ requests[i].target_date = requests[j].target_date
    /\ requests[i].target_shift_id = requests[j].target_shift_id
    /\ WindowsMeet(requests[i].target_start_time, requests[i].target_end_time,
                   requests[j].target_start_time, requests[j].target_end_time)

\* C18: a submit_request call that has passed the duplicate check is created
\* whatever another call commits before it does: while two calls for the same
\* (user, date, shift) with overlapping windows both stand between their
\* duplicate check and their commit, the commit of each stores its request
\* as PENDING, and the second commit leaves two overlapping PENDING requests.
C18_RacePastDuplicateCheck ==
    [][\A w \in Workers :
          (sess[w].pc = "add" /\ sess'[w] # sess[w])
             => /\ sess'[w].pc = "log" /\ sess'[w].code = 201
                /\ requests' = requests \o sess[w].rows
                /\ \A k \in 1..Len(sess[w].rows) : sess[w].rows[k].status = "PENDING"
                /\ (\E i \in Rows :
                       /\ requests[i].status = "PENDING"
                       /\ requests[i].user_id = sess[w].rows[1].user_id
                       /\ requests[i].target_date = sess[w].rows[1].target_date
                       /\ requests[i].target_shift_id = sess[w].rows[1].target_shift_id
                       /\ WindowsMeet(requests[i].target_start_time,
                                      requests[i].target_end_time,
                                      sess[w].rows[1].target_start_time,
                                      sess[w].rows[1].target_end_time))
                     => \E i, j \in 1..Len(requests') : OverlappingPending(i, j)']_vars

\* both calls answered 201 and the table holds two overlapping PENDING
\* requests with different windows
C18_Witness ==
    /\ \A w \in Workers : sess[w].pc = "done" /\ sess[w].code = 201
    /\ \E i, j \in Rows :
          /\ OverlappingPending(i, j)
          /\ requests[i].target_start_time # requests[j].target_start_time
          /\ requests[i].target_start_time # NoneT
          /\ requests[j].target_start_time # NoneT

\* an assignment gives the user of row rid the shift of the row on its date
Assigned(rid) ==
    \E i \in 1..Len(assignments) :
       /\ assignments[i].user_id = requests[rid].user_id
       /\ assignments[i].shift_id = requests[rid].target_shift_id
       /\ assignments[i].valid_from <= requests[rid].target_date
       /\ (assignments[i].valid_to = NoneT
              \/ assignments[i].valid_to >= requests[rid].target_date)

\* C19: approve_request by an operator on a PENDING request answers 200 and
\* sets APPROVED whatever the assignments and the other requests are, the
\* assignment of an ABSENCE deleted or the slot of an EXTRA assigned since;
\* on any stored request its outcome is given by the status of the request
\* alone.
C19_DecisionNotRevalidated ==
    [][\A rid \in Rows :
          approve_request("w1", "op", rid)
             => /\ requests[rid].status = "PENDING"
                   => /\ Answer.pc = "log" /\ Answer.code = 200
                      /\ requests' = [requests EXCEPT ![rid].status = "APPROVED"]
                /\ Answer.code = IF requests[rid].status \in {"CANCELLED", "APPROVED"}
                                 THEN 400 ELSE 200]_vars

\* an ABSENCE just approved with no assignment left for its slot, next to an
\* approved EXTRA whose slot is assigned to its user
C19_Witness ==
    /\ sess["w1"].pc = "log" /\ sess["w1"].op = "approve_request"
    /\ \E rid \in sess["w1"].ids :
          /\ requests[rid].type = "ABSENCE" /\ requests[rid].status = "APPROVED"
          /\ ~Assigned(rid)
    /\ \E rid \in Rows :
          /\ requests[rid].type = "EXTRA" /\ requests[rid].status = "APPROVED"
          /\ Assigned(rid)

\* range r of payload p names a shift of another weekday than the target date
OffWeekday(p, r) ==
    r.shift_id \in ShiftIds /\ Shift(r.shift_id).weekday # p.target_date % 7

\* C20: every stored request has its target date on the weekday of its target
\* shift; a submit_request call with a range naming a shift of another
\* weekday creates nothing, and is refused with the validation error (400)
\* when the caller may file for the target user and the ranges before that
\* one pass their checks.
C20_WeekdayMatch ==
    /\ [](\A rid \in Rows :
             /\ requests[rid].target_shift_id \in ShiftIds
             /\ Shift(requests[rid].target_shift_id).weekday = requests[rid].target_date % 7)
    /\ [][Submitted =>
             LET ranges == PayloadRanges(Call.payload)
             IN \A i \in 1..Len(ranges) :
                   OffWeekday(Call.payload, ranges[i])
                      => /\ Answer.pc = "done" /\ Answer.code # 201
                         /\ UNCHANGED <<requests, audit>>
                         /\ (MayFile(Call) /\ \A j \in 1..(i - 1) : ~Fails(Call, ranges[j]))
                               => (Answer.code = 400 /\ Answer.detail = "weekday mismatch")]_vars

\* an EXTRA for the Tuesday shift on the Monday refused with 400, next to a
\* stored request
C20_Witness ==
    /\ sess["w1"].pc = "done" /\ sess["w1"].op = "submit_request"
    /\ sess["w1"].code = 400 /\ sess["w1"].detail = "weekday mismatch"
    /\ sess["w1"].args[2].type = "EXTRA"
    /\ OffWeekday(sess["w1"].args[2], PayloadRanges(sess["w1"].args[2])[1])
    /\ requests # <<>>

\* range r of payload p gives both hours and they are no well-formed window:
\* start not before end, or for an ABSENCE not within the hours of its shift
BadWindow(p, r) ==
    /\ r.start_hour # NoneT /\ r.end_hour # NoneT
    /\ \/ r.start_hour >= r.end_hour
       \/ /\ p.type = "ABSENCE"
          /\ \/ 60 * r.start_hour < Shift(r.shift_id).start_time
             \/ 60 * r.end_hour > Shift(r.shift_id).end_time

\* the window of a stored request is well formed
GoodRow(req) ==
    \/ req.target_start_time = NoneT /\ req.target_end_time = NoneT
    \/ /\ req.target_start_time # NoneT /\ req.target_end_time # NoneT
       /\ req.target_start_time < req.target_end_time
       /\ req.type = "ABSENCE" =>
             /\ Shift(req.target_shift_id).start_time <= req.target_start_time
             /\ req.target_end_time <= Shift(req.target_shift_id).end_time

\* C21: every stored request has no window or a window with start before
\* end that, for an ABSENCE, lies within the hours of its shift; a
\* submit_request call with a range violating this creates nothing and is
\* refused with the validation error (400) when the caller may file for the
\* target user, the range names a shift of the date's weekday and the ranges
\* before it pass their checks.
C21_WindowsWellFormed ==
    /\ [](\A rid \in Rows : GoodRow(requests[rid]))
    /\ [][Submitted =>
             LET ranges == PayloadRanges(Call.payload)
             IN \A i \in 1..Len(ranges) :
                   (/\ ranges[i].shift_id \in ShiftIds
                    /\ ~OffWeekday(Call.payload, ranges[i])
                    /\ BadWindow(Call.payload, ranges[i]))
                      => /\ Answer.pc = "done" /\ Answer.code # 201
                         /\ UNCHANGED <<requests, audit>>
                         /\ (MayFile(Call) /\ \A j \in 1..(i - 1) : ~Fails(Call, ranges[j]))
                               => Answer.code = 400]_vars

\* the validity windows [f1, t1] and [f2, t2] share a day, a missing end
\* leaving the window open
ValidityOverlaps(f1, t1, f2, t2) ==
    /\ (t1 = NoneT \/ f2 <= t1)
    /\ (t2 = NoneT \/ f1 <= t2)

\* an assignment of the (user, shift) pair of body p overlaps its window
OverlapsExisting(p) ==
    \E i \in 1..Len(assignments) :
       /\ assignments[i].user_id = p.user_id
       /\ assignments[i].shift_id = SlotOf(p)
       /\ ValidityOverlaps(assignments[i].valid_from, assignments[i].valid_to,
                           p.valid_from, p.valid_to)

\* body p passes every check of assign_slot before the existence query
WellFormedAssign(p) ==
    /\ Len(_validate_hours(p.start_hour, p.end_hour)) = 2
    /\ (p.valid_to = NoneT \/ p.valid_to >= p.valid_from)
    /\ p.user_id \in UserIds /\ Role(p.user_id) = "MEMBER"

\* C22: assign_slot refuses with the conflict error (409) an assignment whose
\* validity window overlaps the one of an existing assignment of the same
\* (user, shift) and accepts it when none overlaps, so no two assignments of
\* one (user, shift) ever overlap in time.
C22_NoOverlappingAssignments ==
    /\ [](\A i, j \in 1..Len(assignments) :
             (/\ i # j
              /\ assignments[i].user_id = assignments[j].user_id
              /\ assignments[i].shift_id = assignments[j].shift_id)
                => ~ValidityOverlaps(assignments[i].valid_from, assignments[i].valid_to,
                                     assignments[j].valid_from, assignments[j].valid_to))
    /\ [][\A p \in AssignCalls :
             (assign_slot("w1", "op", p) /\ WellFormedAssign(p))
                => IF OverlapsExisting(p)
                   THEN /\ Answer.pc = "done" /\ Answer.code = 409
                        /\ UNCHANGED assignments
                   ELSE /\ Answer.pc = "log" /\ Answer.code = 200
                        /\ assignments' = Append(assignments, NewAssignment(p))]_vars

\* the approved ABSENCE rows whose (user, date, shift) no assignment covers
Unmatched ==
    {rid \in ApprovedRows : requests[rid].type = "ABSENCE" /\ ~Assigned(rid)}

\* C23: an APPROVED ABSENCE whose (user, date, shift) matches no BASE
\* interval of the week, its assignment deleted or never made, leaves
\* week_events equal to the result without that request, and the weekly view
\* is answered without error.
C23_UnmatchedAbsenceIgnored ==
    /\ [](\A rid \in Unmatched, uf \in DecideFilters \cup {"m1"} :
             week_events(requests, assignments, 0, uf)
                = week_events(Without(requests, rid), assignments, 0, uf))
    /\ [][\A uf \in DecideFilters :
             weekly_view("w1", "op", 0, uf)
                => /\ Answer.pc = "done" /\ Answer.code = 200
                   /\ \A rid \in Unmatched :
                         Answer.body = week_events(Without(requests, rid), assignments, 0, uf)]_vars

\* the week returned with the BASE event of m2 whole while the table holds an
\* approved ABSENCE of m1, whose assignment was deleted
C23_Witness ==
    /\ sess["w1"].pc = "done" /\ sess["w1"].op = "weekly_view" /\ sess["w1"].code = 200
    /\ \E rid \in Unmatched : requests[rid].user_id = "m1"
    /\ \E k \in 1..Len(sess["w1"].body) :
          /\ sess["w1"].body[k].source = "BASE" /\ sess["w1"].body[k].user_id = "m2"
          /\ sess["w1"].body[k].end_time - sess["w1"].body[k].start_time = 180

\* C24: in the list week_events returns, the segments of one BASE interval
\* stand in strictly increasing start time and are pairwise disjoint, every
\* BASE-derived segment has start_time < end_time, and every BASE-derived
\* segment precedes every EXTRA event.
C24_SegmentOrder ==
    \A start \in ExtraStarts, uf \in ExtraFilters :
       LET evs == week_events(requests, assignments, start, uf)
       IN /\ \A i \in 1..Len(evs) :
                evs[i].source = "BASE" => evs[i].start_time < evs[i].end_time
          /\ \A i, j \in 1..Len(evs) :
                i < j =>
                   /\ evs[i].source = "EXTRA" => evs[j].source = "EXTRA"
                   /\ (/\ evs[i].source = "BASE" /\ evs[j].source = "BASE"
                       /\ evs[i].user_id = evs[j].user_id
                       /\ evs[i].date = evs[j].date
                       /\ evs[i].shift_id = evs[j].shift_id)
                         => (/\ evs[i].start_time < evs[j].start_time
                             /\ evs[i].end_time <= evs[j].start_time)

\* the week returned as the two segments 09-10 and 11-12 of the Monday shift
\* followed by two EXTRA events
C24_Witness ==
    /\ sess["w1"].pc = "done" /\ sess["w1"].op = "weekly_view"
    /\ Len(sess["w1"].body) = 4
    /\ sess["w1"].body[1].source = "BASE" /\ sess["w1"].body[2].source = "BASE"
    /\ sess["w1"].body[1].end_time = 600 /\ sess["w1"].body[2].start_time = 660
    /\ sess["w1"].body[3].source = "EXTRA" /\ sess["w1"].body[4].source = "EXTRA"

\* C25: with the assignments fixed, after any sequence of submit_request,
\* approve_request, reject_request and cancel_request calls week_events never
\* returns both a BASE-derived segment and an EXTRA event for the same
\* (user, date, shift).
C25_NoDoubleBookedSlot ==
    LET evs == week_events(requests, assignments, 0, NoneId)
    IN \A i, j \in 1..Len(evs) :
          (evs[i].source = "BASE" /\ evs[j].source = "EXTRA")
             => ~(/\ evs[i].user_id = evs[j].user_id
                  /\ evs[i].date = evs[j].date
                  /\ evs[i].shift_id = evs[j].shift_id)

\* C26: with approve_request and cancel_request running concurrently on a
\* PENDING request, the stored request ends as one of the two serial orders
\* leaves it, CANCELLED with the flag set or CANCELLED with the flag clear;
\* it is never APPROVED with a cancel_reason set.
C26_ConcurrentDecisionsSerializable ==
    \A rid \in Rows :
       /\ ~(requests[rid].status = "APPROVED" /\ requests[rid].cancel_reason # NoneId)
       /\ requests[rid].cancel_reason # NoneId =>
             /\ requests[rid].status = "CANCELLED"
             /\ requests[rid].cancel_reason = "USER_CANCEL"

\* C27: every event weekly_view returns to a caller of role MEMBER, with or
\* without the user_id parameter, has the caller's id as user_id.
C27_MemberIsolation ==
    [][\A current \in {"m1", "m2"}, start \in BaseStarts, uf \in BaseFilters :
          weekly_view("w1", current, start, uf)
             => \A k \in 1..Len(Answer.body) : Answer.body[k].user_id = current]_vars

\* C28: a request with cancelled_after_approval set has status CANCELLED; a
\* request is created with the flag clear, and the flag is set only by a
\* step that finds the request APPROVED, so a request that never was
\* APPROVED has the flag clear.
C28_FlagImpliesCancelled ==
    /\ [](\A rid \in Rows :
             requests[rid].cancelled_after_approval => requests[rid].status = "CANCELLED")
    /\ [][\A rid \in 1..Len(requests') :
             IF rid \in Rows
             THEN (~requests[rid].cancelled_after_approval
                      /\ requests'[rid].cancelled_after_approval)
                     => requests[rid].status = "APPROVED"
             ELSE ~requests'[rid].cancelled_after_approval]_vars

\* a request cancelled after its approval with the flag set, next to a
\* request cancelled while PENDING with the flag clear
C28_Witness ==
    \E a, b \in Rows :
       /\ requests[a].status = "CANCELLED" /\ requests[a].cancelled_after_approval
       /\ requests[b].status = "CANCELLED" /\ ~requests[b].cancelled_after_approval

\* the table without its ABSENCE rows
NoAbsences(reqs) ==
    LET keep(r) == r.type # "ABSENCE"
    IN SelectSeq(reqs, keep)

\* the EXTRA events of a result
ExtrasIn(evs) ==
    LET isExtra(ev) == ev.source = "EXTRA"
    IN SelectSeq(evs, isExtra)

\* C29: an ABSENCE for a slot the user holds only through an approved EXTRA
\* is admitted, and whatever absences are approved week_events returns the
\* EXTRA events it returns without any ABSENCE in the table, each with its
\* full window.
C29_AbsenceNeverCutsExtra ==
    /\ [](\A uf \in DecideFilters \cup {"m1"} :
             LET evs == ExtrasIn(week_events(requests, assignments, 0, uf))
                 counts(r) == /\ r.type = "EXTRA" /\ r.status = "APPROVED"
                              /\ (uf # NoneId => r.user_id = uf)
                 rs == SelectSeq(requests, counts)
             IN /\ evs = ExtrasIn(week_events(NoAbsences(requests), assignments, 0, uf))
                /\ evs = [i \in 1..Len(rs) |-> ExtraOf(rs[i])])
    /\ [][(/\ Submitted
           /\ Call.payload.type = "ABSENCE"
           /\ \E rid \in ApprovedRows :
                 /\ requests[rid].type = "EXTRA"
                 /\ requests[rid].user_id = Call.current
                 /\ requests[rid].target_shift_id = Call.payload.target_shift_id
                 /\ requests[rid].target_date = Call.payload.target_date
                 /\ ~Assigned(rid)
           /\ ~Clashes(Call, PayloadRanges(Call.payload)[1], {"PENDING"}))
          => /\ Answer.pc = "log" /\ Answer.code = 201
             /\ Len(requests') = Len(requests) + 1]_vars

\* the week returned with the EXTRA event of m2 on the whole Monday shift and
\* no BASE event of m2, the table holding the approved ABSENCE of m2 for
\* that slot
C29_Witness ==
    /\ sess["w1"].pc = "done" /\ sess["w1"].op = "weekly_view"
    /\ \E rid \in Unmatched : requests[rid].user_id = "m2"
    /\ \E k \in 1..Len(sess["w1"].body) :
          /\ sess["w1"].body[k].source = "EXTRA" /\ sess["w1"].body[k].user_id = "m2"
          /\ sess["w1"].body[k].start_time = 540 /\ sess["w1"].body[k].end_time = 720
    /\ \A k \in 1..Len(sess["w1"].body) :
          sess["w1"].body[k].user_id = "m2" => sess["w1"].body[k].source = "EXTRA"

\* C30: every stored request has a target user of role MEMBER; a
\* submit_request call whose target user is an OPERATOR or a MASTER, the
\* caller themself included, is refused and creates no request and no audit
\* record.
C30_TargetsAreMembers ==
    /\ [](\A rid \in Rows : Role(requests[rid].user_id) = "MEMBER")
    /\ [][(/\ Submitted
           /\ TargetUser(Call.current, Call.payload) \in UserIds
           /\ Role(TargetUser(Call.current, Call.payload)) \in {"OPERATOR", "MASTER"})
          => /\ Answer.pc = "done" /\ Answer.code # 201
             /\ UNCHANGED <<requests, audit>>]_vars

\* the operator's EXTRA for themself on the free shift sC refused, next to a
\* stored request
C30_Witness ==
    /\ sess["w1"].pc = "done" /\ sess["w1"].op = "submit_request"
    /\ sess["w1"].args[1] = "op" /\ sess["w1"].args[2].user_id = NoneId
    /\ sess["w1"].code = 400 /\ sess["w1"].detail = "target is not a member"
    /\ requests # <<>>
=============================================================================
